---- MODULE Spec2Model ----
(***************************************************************************)
(* The Ottawa traffic collision dashboard (src/app.py) as a state machine. *)
(* One run of the script is: load_data, the empty-table guard, the global  *)
(* filter block, the KPI block, the visualization block (which holds the   *)
(* map filter), the insight summary, the comparative metrics and the final *)
(* tables.  A widget interaction reruns the script against the cached      *)
(* load_data result.                                                       *)
(*                                                                         *)
(* A cell of a table is NaN (missing) or a one-element tuple <<v>>.  A     *)
(* data frame is [cols, idx, rows]: the set of column names, the index     *)
(* labels and the rows (records over cols), idx and rows of equal length.  *)
(***************************************************************************)
EXTENDS Integers, Sequences, FiniteSets, TLC

VARIABLES
    csv,          \* Data/Cleaned_Traffic_Data.csv: NaN (unreadable) or <<frame>>
    xlsx,         \* Data/Dimtables.xlsx: NaN (unreadable) or <<sheet name -> frame>>
    cache,        \* st.cache_data entry of load_data: NaN or <<its return value>>
    pc,           \* the block the script runs next
    df,           \* module-level df
    dim_data,     \* module-level dim_data
    bound,        \* the module-level names the filter block has bound
    selection,    \* the global multiselect values, attribute -> set of values
    filtered_df,  \* module-level filtered_df (meaningful when "filtered_df" \in bound)
    map_selection,\* the map multiselect values
    map_df,       \* module-level map_df (meaningful when "map_df" \in bound)
    kpis,         \* the KPI block's metrics and alert
    monthly,      \* the trend chart's frame, a sequence of <<month, Collisions>>
    weekday_counts, \* the weekday chart's frame, a sequence of <<Weekday, Count>>
    impact_count, \* the pie chart's frame, Classification -> Count
    summary,      \* top_day, top_light, top_surface as far as they were computed
    rates,        \* the comparative block's three numbers, as fractions
    rendered,     \* the elements this run has put on the page
    logged        \* the log lines written so far (as a set of messages)

vars == <<csv, xlsx, cache, pc, df, dim_data, bound, selection, filtered_df,
          map_selection, map_df, kpis, monthly, weekday_counts, impact_count,
          summary, rates, rendered, logged>>

(***************************************************************************)
(* Bounds of the model.                                                    *)
(***************************************************************************)
MaxRows == 2        \* rows of the fact file
MaxPicks == 2       \* values picked in the multiselects (global and map) of one run

(***************************************************************************)
(* Cells and frames.                                                       *)
(***************************************************************************)
NaN == <<>>
notna(v) == v # NaN

RECURSIVE SeqSum(_)
SeqSum(s) == IF s = <<>> THEN 0 ELSE Head(s) + SeqSum(Tail(s))

RECURSIVE Flatten(_)
Flatten(ss) == IF ss = <<>> THEN <<>> ELSE Head(ss) \o Flatten(Tail(ss))

Range(s) == {s[i] : i \in 1..Len(s)}

\* {}: a workbook mapping without sheets.
NoSheets == [s \in {} |-> <<>>]

\* pd.DataFrame(): no columns, no rows.
EmptyFrame == [cols |-> {}, idx |-> <<>>, rows |-> <<>>]

\* DataFrame.empty: any axis of length 0.
IsEmpty(f) == f.cols = {} \/ Len(f.rows) = 0

\* frame[mask]: the rows for which keep holds, with their index labels.
RECURSIVE KeptPositions(_, _, _)
KeptPositions(f, keep(_), i) ==
    IF i > Len(f.rows) THEN <<>>
    ELSE (IF keep(f.rows[i]) THEN <<i>> ELSE <<>>) \o KeptPositions(f, keep, i + 1)

BoolIndex(f, keep(_)) ==
    LET ps == KeptPositions(f, keep, 1)
    IN  [cols |-> f.cols,
         idx  |-> [k \in 1..Len(ps) |-> f.idx[ps[k]]],
         rows |-> [k \in 1..Len(ps) |-> f.rows[ps[k]]]]

(***************************************************************************)
(* load_data (src/app.py:16-38).                                           *)
(***************************************************************************)
\* The eight merges in source order: sheet, join key, and the label column the
\* sheet adds.  The label columns are the ones the script reads after the load
\* (lines 53-57, 145, 158-164); the last two sheets' labels are read nowhere and
\* are named after their sheets.
Dims ==
    << [sheet |-> "Dimlocation_type",              key |-> "location_type_id", label |-> "location_type"],
       [sheet |-> "Dimclassification_of_accident", key |-> "Classificationid", label |-> "classification_of_accident"],
       [sheet |-> "Diminitial_impact_type",        key |-> "impactid",         label |-> "initial_impact_type"],
       [sheet |-> "Dimroad_surface_condition",     key |-> "road_conditionid", label |-> "road_surface_condition"],
       [sheet |-> "Dimenvironment_condition",      key |-> "environmentid",    label |-> "environment_condition"],
       [sheet |-> "Dimlight",                      key |-> "lightid",          label |-> "light"],
       [sheet |-> "Dimtraffic_control",            key |-> "trafficid",        label |-> "traffic_control"],
       [sheet |-> "Dimmax_injury",                 key |-> "injuryid",         label |-> "max_injury"] >>

\* DataFrame.merge(right, on=key, how="left"): every left row in order, once per
\* right row with an equal key (in right order), or once with the right columns
\* missing when no right row matches.  The result has a fresh 0..n-1 index.
MatchesOf(l, right, key) ==
    SelectSeq(right.rows, LAMBDA r : r[key] = l[key])

MergedRow(l, r, lcols, extra) ==
    [c \in lcols \cup extra |-> IF c \in lcols THEN l[c] ELSE r[c]]

UnmatchedRow(l, lcols, extra) ==
    [c \in lcols \cup extra |-> IF c \in lcols THEN l[c] ELSE NaN]

\* how="inner": a left row without a match is dropped.
ExpandRowInner(l, left, right, key) ==
    LET extra == right.cols \ {key}
        ms    == MatchesOf(l, right, key)
    IN  [k \in 1..Len(ms) |-> MergedRow(l, ms[k], left.cols, extra)]

ExpandRow(l, left, right, key) ==
    LET extra == right.cols \ {key}
        ms    == MatchesOf(l, right, key)
    IN  IF ms = <<>> THEN << UnmatchedRow(l, left.cols, extra) >>
        ELSE [k \in 1..Len(ms) |-> MergedRow(l, ms[k], left.cols, extra)]

MergeLeft(left, right, key) ==
    LET rows == Flatten([i \in 1..Len(left.rows) |->
                            ExpandRow(left.rows[i], left, right, key)])
    IN  [cols |-> left.cols \cup (right.cols \ {key}),
         idx  |-> [k \in 1..Len(rows) |-> k - 1],
         rows |-> rows]

\* A merge raises KeyError when the sheet is not in the workbook or the key is
\* not a column of both sides.
MergeRaises(left, book, d) ==
    \/ d.sheet \notin DOMAIN book
    \/ d.key \notin left.cols
    \/ d.key \notin book[d.sheet].cols

\* The merges with the failing one caught on its own: the table joined so far
\* is returned.
RECURSIVE MergeFromPartial(_, _, _)
MergeFromPartial(fact, book, i) ==
    IF i > Len(Dims) THEN <<fact>>
    ELSE IF MergeRaises(fact, book, Dims[i]) THEN <<fact>>
    ELSE MergeFromPartial(MergeLeft(fact, book[Dims[i].sheet], Dims[i].key), book, i + 1)

\* Lines 23-30 from merge i on: NaN when one of them raises, else <<frame>>.
RECURSIVE MergeFrom(_, _, _)
MergeFrom(fact, book, i) ==
    IF i > Len(Dims) THEN <<fact>>
    ELSE IF MergeRaises(fact, book, Dims[i]) THEN NaN
    ELSE MergeFrom(MergeLeft(fact, book[Dims[i].sheet], Dims[i].key), book, i + 1)

\* The body of the try: NaN when any step raised.  read_csv raises when the file
\* is unreadable or the parse_dates column is not in it; read_excel raises when
\* the workbook is unreadable.
LoadTry(file, book) ==
    IF file = NaN \/ book = NaN THEN NaN
    ELSE IF "accident_date" \notin file[1].cols THEN NaN
    ELSE MergeFrom(file[1], book[1], 1)

\* load_data's return value, with what it logged and put on the page.
load_data(file, book) ==
    LET t == LoadTry(file, book)
    IN  IF t # NaN
        THEN [df |-> t[1], dim_data |-> book[1],
              log |-> {"INFO Data loaded and merged successfully."},
              elements |-> {}]
        ELSE [df |-> EmptyFrame, dim_data |-> NoSheets,
              log |-> {"ERROR Error loading data"},
              elements |-> {"error: Failed to load data."}]

(***************************************************************************)
(* The filter engine: the global filter block (src/app.py:49-84) and the   *)
(* map filter (src/app.py:119-138).  Python objects are kept in a heap (a  *)
(* sequence of frames, a reference is a position) so that copies, new      *)
(* frames and in-place changes are told apart; object 1 is df.             *)
(***************************************************************************)
\* Series.dt.year of accident_date: missing for NaT.
Year(v) == IF v = NaN THEN NaN ELSE << v[1].year >>

\* The filterable attributes of the global block, in the order of lines 51-57
\* and 68-81, and those of the map block, in the order of lines 119-135.
GlobalAttrs ==
    << [name |-> "year",         col |-> "accident_date",          bind |-> "years"],
       [name |-> "weekday",      col |-> "weekday",                bind |-> "days"],
       [name |-> "location",     col |-> "location_type",          bind |-> "locations"],
       [name |-> "light",        col |-> "light",                  bind |-> "lights"],
       [name |-> "impact",       col |-> "initial_impact_type",    bind |-> "impacts"],
       [name |-> "environment",  col |-> "environment_condition",  bind |-> "environments"],
       [name |-> "surface",      col |-> "road_surface_condition", bind |-> "surfaces"] >>

MapAttrs == << GlobalAttrs[1], GlobalAttrs[3], GlobalAttrs[4], GlobalAttrs[6], GlobalAttrs[7] >>

AttrNames == {GlobalAttrs[i].name : i \in 1..Len(GlobalAttrs)}

\* The series an attribute is filtered on: the year of the date, or the column.
AttrValue(a, row) == IF a.name = "year" THEN Year(row[a.col]) ELSE row[a.col]

\* series.dropna().unique() as a set (the options of a multiselect).
Domain(f, a) ==
    {AttrValue(a, f.rows[i])[1] : i \in {j \in 1..Len(f.rows) : notna(AttrValue(a, f.rows[j]))}}

\* isin with a missing cell taken to be in every selection.
isin_missing_passes(v, values) == v = NaN \/ v[1] \in values

\* isin as a comparison with the whole selection (== instead of a membership test).
isin_equals(v, values) == notna(v) /\ values = {v[1]}

\* Series.isin(values): a missing cell is in no selection.
isin(v, values) == notna(v) /\ v[1] \in values

NoSelection == [a \in AttrNames |-> {}]

\* heap operations
Copy(h, r) == Append(h, h[r])
Current(h) == Len(h)

\* lines 68-81 / 126-135 from attribute i on: each non-empty selection rebinds the
\* name to a new frame holding the rows whose value is selected.
RECURSIVE ApplyFrom(_, _, _, _)
ApplyFrom(h, attrs, sel, i) ==
    IF i > Len(attrs) THEN h
    ELSE IF sel[attrs[i].name] # {}
         THEN ApplyFrom(Append(h, BoolIndex(h[Current(h)],
                                   LAMBDA row : isin(AttrValue(attrs[i], row), sel[attrs[i].name]))),
                        attrs, sel, i + 1)
         ELSE ApplyFrom(h, attrs, sel, i + 1)

\* lines 51-57: the attributes whose domain is computed before a column is
\* found missing (KeyError), as a count.
RECURSIVE DomainsBound(_, _)
DomainsBound(d, i) ==
    IF i > Len(GlobalAttrs) \/ GlobalAttrs[i].col \notin d.cols THEN i - 1
    ELSE DomainsBound(d, i + 1)

FilterRaises(d) == DomainsBound(d, 1) < Len(GlobalAttrs)

\* lines 67-81: the heap after the global filter, given heap <<df>>.
GlobalFilterHeap(d, sel) == ApplyFrom(Copy(<<d>>, 1), GlobalAttrs, sel, 1)

\* The selections a user can make from the options offered, with at most k
\* values picked in all.
Options(d, attrs) ==
    UNION {{<<attrs[i].name, v>> : v \in Domain(d, attrs[i])} : i \in 1..Len(attrs)}

RECURSIVE PicksUpTo(_, _)
PicksUpTo(O, k) ==
    IF k = 0 THEN {{}}
    ELSE LET prev == PicksUpTo(O, k - 1)
         IN  prev \cup {P \cup {o} : P \in prev, o \in O}

SelectionOf(P) == [a \in AttrNames |-> {p[2] : p \in {q \in P : q[1] = a}}]

Selections(d, attrs, k) == {SelectionOf(P) : P \in PicksUpTo(Options(d, attrs), k)}

RECURSIVE PickCount(_, _)
PickCount(sel, i) ==
    IF i > Len(GlobalAttrs) THEN 0
    ELSE Cardinality(sel[GlobalAttrs[i].name]) + PickCount(sel, i + 1)

\* lines 125-138: the heap after the map filter, the dropna (a new frame, copied)
\* and the in-place rename of that last frame, given heap <<df>>.
RenameColumn(f, old, new) ==
    LET ren(c) == IF c = old THEN new ELSE c
    IN  [cols |-> {ren(c) : c \in f.cols},
         idx  |-> f.idx,
         rows |-> [k \in 1..Len(f.rows) |->
                     [c \in {ren(x) : x \in f.cols} |->
                         IF c = new /\ old \in f.cols THEN f.rows[k][old] ELSE f.rows[k][c]]]]

RenameInplace(h, r, old, new) == [h EXCEPT ![r] = RenameColumn(@, old, new)]

Dropna(f, subset) == BoolIndex(f, LAMBDA row : \A c \in subset : notna(row[c]))

\* The map filter started from a copy of filtered_df (object 2) instead of df.
MapFilterHeapOfFiltered(d, sel) == ApplyFrom(Copy(<<d, filtered_df>>, 2), MapAttrs, sel, 1)

MapFilterHeap(d, sel) == ApplyFrom(Copy(<<d>>, 1), MapAttrs, sel, 1)

MapRaises(d) == ~({"lat", "long"} \subseteq d.cols)

\* The rename applied in place to df (object 1) instead of map_df.
MapHeapRenamesDf(d, sel) ==
    LET h1 == MapFilterHeap(d, sel)
        h2 == Append(h1, Dropna(h1[Current(h1)], {"lat", "long"}))
        h3 == Copy(h2, Current(h2))
    IN  RenameInplace(h3, 1, "long", "longitude")

MapHeap(d, sel) ==
    LET h1 == MapFilterHeap(d, sel)
        h2 == Append(h1, Dropna(h1[Current(h1)], {"lat", "long"}))
        h3 == Copy(h2, Current(h2))
    IN  RenameInplace(h3, Current(h3), "long", "longitude")

(***************************************************************************)
(* The aggregates.                                                         *)
(***************************************************************************)
\* The order sorted() and Series.mode() put the labels in (ascending strings).
LabelOrder ==
    << "Angle", "Clear", "Dark", "Daylight", "Dry", "Friday", "Intersection",
       "Midblock", "Minor", "Monday", "Non-fatal injury", "None", "P.D. only",
       "Rain", "Rear end", "Saturday", "Stop sign", "Sunday", "Thursday",
       "Traffic signal", "Tuesday", "Wednesday", "Wet" >>

Rank(s) == CHOOSE i \in 1..Len(LabelOrder) : LabelOrder[i] = s

\* Series.sum(): missing cells are skipped; Series.fillna(0).sum() is the same.
SumColumn(f, col) ==
    SeqSum([k \in 1..Len(f.rows) |-> IF notna(f.rows[k][col]) THEN f.rows[k][col][1] ELSE 0])

\* (series > 0).sum(): a missing cell compares False.
CountPositive(f, col) ==
    Cardinality({k \in 1..Len(f.rows) : notna(f.rows[k][col]) /\ f.rows[k][col][1] > 0})

\* Series.value_counts(): value -> number of rows, over the non-missing values.
CountOf(f, col, v) == Cardinality({k \in 1..Len(f.rows) : f.rows[k][col] = <<v>>})

Present(f, col) == {f.rows[k][col][1] : k \in {j \in 1..Len(f.rows) : notna(f.rows[j][col])}}

value_counts(f, col) == [v \in Present(f, col) |-> CountOf(f, col, v)]

\* Series.mode(): the most frequent non-missing values, ascending.
Modes(f, col) ==
    LET vc == value_counts(f, col)
    IN  {v \in DOMAIN vc : \A w \in DOMAIN vc : vc[w] <= vc[v]}

ModeRaises(f, col) == col \notin f.cols \/ Modes(f, col) = {}

\* mode()[0]
Mode0(f, col) ==
    LET m == Modes(f, col) IN CHOOSE v \in m : \A w \in m : Rank(v) <= Rank(w)

\* lines 110-113: value_counts().reindex(the seven names).reset_index(); reindex
\* leaves a name value_counts does not hold with a missing count.
Weekdays == << "Monday", "Tuesday", "Wednesday", "Thursday", "Friday", "Saturday", "Sunday" >>

Reindex(vc, names) ==
    [k \in 1..Len(names) |->
        << names[k], IF names[k] \in DOMAIN vc THEN << vc[names[k]] >> ELSE NaN >>]

WeekdayCounts(f) == Reindex(value_counts(f, "weekday"), Weekdays)

\* line 104: rows per month of accident_date, NaT rows dropped, months ascending.
Periods(f) == {f.rows[k]["accident_date"][1] :
                  k \in {j \in 1..Len(f.rows) : notna(f.rows[j]["accident_date"])}}

RECURSIVE SortedPeriods(_)
SortedPeriods(S) ==
    IF S = {} THEN <<>>
    ELSE LET m == CHOOSE p \in S : \A q \in S : p.year * 12 + p.month <= q.year * 12 + q.month
         IN  <<m>> \o SortedPeriods(S \ {m})

Monthly(f) ==
    LET ps == SortedPeriods(Periods(f))
    IN  [k \in 1..Len(ps) |-> << ps[k], CountOf(f, "accident_date", ps[k]) >>]

\* A rate is kept as the fraction the division was given; numpy's division by 0
\* does not raise, so a zero denominator stays visible in the state.
Div(n, d) == [num |-> n, den |-> d]
Minus(a, b) == [num |-> a.num * b.den - b.num * a.den, den |-> a.den * b.den]
Sign(a) == IF a.den = 0 \/ a.num = 0 THEN 0
           ELSE IF (a.num > 0) = (a.den > 0) THEN 1 ELSE -1

\* lines 172-174
AllRate(d) == Div(SumColumn(d, "num_of_injuries"), Len(d.rows))

\* The filtered rate without the guard on an empty filtered_df.
FilteredRateUnguarded(f) == Div(SumColumn(f, "num_of_injuries"), Len(f.rows))

FilteredRate(f) ==
    IF Len(f.rows) > 0 THEN Div(SumColumn(f, "num_of_injuries"), Len(f.rows)) ELSE Div(0, 1)

InjuryAlert == 200
VolumeAlert == 1000

(***************************************************************************)
(* The blocks of the script, each the whole try/except.                    *)
(***************************************************************************)
\* lines 87-99.  NameError at line 89 when filtered_df is unbound, KeyError at
\* the first metric whose column is missing; the metrics before it are on the
\* page.
KpiColumns == << "num_of_injuries", "num_of_pedestrians", "num_of_vehicle" >>

RECURSIVE KpiReached(_, _)
KpiReached(f, i) ==
    IF i > Len(KpiColumns) \/ KpiColumns[i] \notin f.cols THEN i - 1
    ELSE KpiReached(f, i + 1)

KpiMetric(f, i) ==
    CASE i = 1 -> <<"Total Collisions", Len(f.rows)>>
      [] i = 2 -> <<"Total Injuries", SumColumn(f, "num_of_injuries")>>
      [] i = 3 -> <<"Pedestrian Involved", CountPositive(f, "num_of_pedestrians")>>
      [] i = 4 -> <<"Vehicles Involved", SumColumn(f, "num_of_vehicle")>>

KpiAlert(f) ==
    IF SumColumn(f, "num_of_injuries") > InjuryAlert THEN "error: High Injury Alert"
    ELSE IF Len(f.rows) > VolumeAlert THEN "warning: High Volume"
    ELSE "none"

KpiBlock(bnd, f) ==
    IF "filtered_df" \notin bnd
    THEN [metrics |-> <<>>, alert |-> "none", raised |-> TRUE]
    ELSE LET n == KpiReached(f, 1)
         IN  IF n < Len(KpiColumns)
             THEN [metrics |-> [i \in 1..(n + 1) |-> KpiMetric(f, i)], alert |-> "none", raised |-> TRUE]
             ELSE [metrics |-> [i \in 1..(n + 1) |-> KpiMetric(f, i)], alert |-> KpiAlert(f), raised |-> FALSE]

\* lines 102-151: how far the one try gets.  0: NameError or KeyError at line
\* 104; 1: the trend chart is drawn, KeyError at line 110; 2: both charts are
\* drawn, KeyError at line 137; 3: the map (or its warning) is drawn too,
\* KeyError at line 145; 4: all four are drawn.
VizReached(bnd, d, f) ==
    IF "filtered_df" \notin bnd \/ "accident_date" \notin f.cols THEN 0
    ELSE IF "weekday" \notin f.cols THEN 1
    ELSE IF MapRaises(d) THEN 2
    ELSE IF "classification_of_accident" \notin f.cols THEN 3
    ELSE 4

\* lines 154-167: the metrics drawn before one of the three raises.  A column is
\* read only when filtered_df is not empty.
SummaryColumns == << "weekday", "light", "road_surface_condition" >>

TopValue(f, col) == IF ~IsEmpty(f) THEN Mode0(f, col) ELSE "N/A"

TopRaises(f, col) == ~IsEmpty(f) /\ ModeRaises(f, col)

RECURSIVE SummaryFrom(_, _)
SummaryFrom(f, i) ==
    IF i > Len(SummaryColumns) \/ TopRaises(f, SummaryColumns[i]) THEN <<>>
    ELSE << TopValue(f, SummaryColumns[i]) >> \o SummaryFrom(f, i + 1)

InsightBlock(bnd, f) == IF "filtered_df" \notin bnd THEN <<>> ELSE SummaryFrom(f, 1)

\* lines 170-184
ComparativeRaises(bnd, d) == "num_of_injuries" \notin d.cols \/ "filtered_df" \notin bnd

ComparativeBlock(d, f) ==
    LET all_avg_injury_rate      == AllRate(d)
        filtered_avg_injury_rate == FilteredRate(f)
        injury_diff              == Minus(filtered_avg_injury_rate, all_avg_injury_rate)
    IN  [all_avg_injury_rate |-> all_avg_injury_rate,
         filtered_avg_injury_rate |-> filtered_avg_injury_rate,
         injury_diff |-> injury_diff,
         message |-> IF Sign(injury_diff) > 0 THEN "success: higher than average"
                     ELSE IF Sign(injury_diff) < 0 THEN "warning: lower than average"
                     ELSE "info: matches the overall average"]

(***************************************************************************)
(* The input files the model is run on.                                    *)
(***************************************************************************)
FactColumns ==
    {"accident_date", "weekday", "num_of_injuries", "num_of_pedestrians",
     "num_of_vehicle", "lat", "long"} \cup {Dims[i].key : i \in 1..Len(Dims)}

Date(y, m) == << [year |-> y, month |-> m] >>

FactRow(date, day, keys, counts, lat, long) ==
    [accident_date |-> date, weekday |-> day,
     location_type_id |-> keys[1], Classificationid |-> keys[2], impactid |-> keys[3],
     road_conditionid |-> keys[4], environmentid |-> keys[5], lightid |-> keys[6],
     trafficid |-> keys[7], injuryid |-> keys[8],
     num_of_injuries |-> counts[1], num_of_pedestrians |-> counts[2],
     num_of_vehicle |-> counts[3], lat |-> lat, long |-> long]

\* A daylight collision with coordinates; a night collision with many injured
\* and no longitude; a record with missing date, weekday, counts, coordinates
\* and location key, and a light key no sheet row has.
RowPool ==
    { FactRow(Date(2017, 1), <<"Monday">>,
              << <<1>>, <<1>>, <<1>>, <<1>>, <<1>>, <<1>>, <<1>>, <<1>> >>,
              << <<1>>, <<0>>, <<2>> >>, <<45>>, <<-75>>),
      FactRow(Date(2018, 3), <<"Tuesday">>,
              << <<2>>, <<2>>, <<1>>, <<2>>, <<1>>, <<2>>, <<2>>, <<2>> >>,
              << <<150>>, <<1>>, <<1>> >>, <<45>>, NaN),
      FactRow(NaN, NaN,
              << NaN, <<1>>, <<1>>, <<1>>, <<1>>, <<9>>, <<1>>, <<1>> >>,
              << NaN, NaN, NaN >>, NaN, NaN) }

Frame(cols, rows) ==
    [cols |-> cols,
     idx  |-> [k \in 1..Len(rows) |-> k - 1],
     rows |-> [k \in 1..Len(rows) |-> [c \in cols |-> rows[k][c]]]]

Tables == UNION {[1..n -> RowPool] : n \in 0..MaxRows}

Labels(d) ==
    CASE d.label = "location_type"              -> << "Intersection", "Midblock" >>
      [] d.label = "classification_of_accident" -> << "P.D. only", "Non-fatal injury" >>
      [] d.label = "initial_impact_type"        -> << "Rear end", "Angle" >>
      [] d.label = "road_surface_condition"     -> << "Dry", "Wet" >>
      [] d.label = "environment_condition"      -> << "Clear", "Rain" >>
      [] d.label = "light"                      -> << "Daylight", "Dark" >>
      [] d.label = "traffic_control"            -> << "Stop sign", "Traffic signal" >>
      [] d.label = "max_injury"                 -> << "None", "Minor" >>

\* A sheet with the given identifiers, labelled in turn.
Sheet(d, ids) ==
    [cols |-> {d.key, d.label},
     idx  |-> [k \in 1..Len(ids) |-> k - 1],
     rows |-> [k \in 1..Len(ids) |->
                 [c \in {d.key, d.label} |->
                     IF c = d.key THEN << ids[k] >> ELSE << Labels(d)[k] >>]]]

DimOf(sheet) == CHOOSE i \in 1..Len(Dims) : Dims[i].sheet = sheet
SheetNames == {Dims[i].sheet : i \in 1..Len(Dims)}

Workbook == [s \in SheetNames |-> Sheet(Dims[DimOf(s)], <<1, 2>>)]

\* The workbook with sheet s missing, without its key column, or with one
\* identifier on two rows.
WithoutSheet(s) == [t \in SheetNames \ {s} |-> Workbook[t]]
WithoutKey(s) ==
    [Workbook EXCEPT ![s] = Frame({Dims[DimOf(s)].label}, Workbook[s].rows)]
WithDuplicate(s) == [Workbook EXCEPT ![s] = Sheet(Dims[DimOf(s)], <<1, 1>>)]

DuplicatedSheets == {"Dimtraffic_control"}
DroppedColumns == {Dims[i].key : i \in 1..Len(Dims)} \cup {"accident_date", "weekday", "lat", "num_of_injuries"}

Files ==
    {<< <<Frame(FactColumns, t)>>, <<Workbook>> >> : t \in Tables}
    \cup {<< NaN, <<Workbook>> >>}
    \cup {<< <<Frame(FactColumns, t)>>, NaN >> : t \in Tables}
    \cup {<< <<Frame(FactColumns \ {c}, t)>>, <<Workbook>> >> : t \in Tables, c \in DroppedColumns}
    \cup {<< <<Frame(FactColumns, t)>>, <<WithoutSheet(s)>> >> : t \in Tables, s \in SheetNames}
    \cup {<< <<Frame(FactColumns, t)>>, <<WithoutKey(s)>> >> : t \in Tables, s \in SheetNames}
    \cup {<< <<Frame(FactColumns, t)>>, <<WithDuplicate(s)>> >> : t \in Tables, s \in DuplicatedSheets}

(***************************************************************************)
(* The state machine.                                                      *)
(***************************************************************************)
NoRates == [all_avg_injury_rate |-> Div(0, 1), filtered_avg_injury_rate |-> Div(0, 1),
            injury_diff |-> Div(0, 1), message |-> "none"]
NoKpis == [metrics |-> <<>>, alert |-> "none", raised |-> FALSE]

\* The module namespace and the page at the start of a run.
FreshRun ==
    /\ pc = "load"
    /\ df = EmptyFrame
    /\ dim_data = NoSheets
    /\ bound = {}
    /\ selection = NoSelection
    /\ filtered_df = EmptyFrame
    /\ map_selection = NoSelection
    /\ map_df = EmptyFrame
    /\ kpis = NoKpis
    /\ monthly = <<>>
    /\ weekday_counts = <<>>
    /\ impact_count = <<>>
    /\ summary = <<>>
    /\ rates = NoRates
    /\ rendered = {}

Init ==
    /\ \E f \in Files : csv = f[1] /\ xlsx = f[2]
    /\ cache = NaN
    /\ logged = {}
    /\ FreshRun

\* line 41: load_data() through st.cache_data: the first call runs the body and
\* stores what it returned and drew; a later call returns a copy of the stored
\* value and draws the stored elements again, without running the body.
LoadData ==
    /\ pc = "load"
    /\ LET r == IF cache = NaN THEN load_data(csv, xlsx) ELSE cache[1]
       IN  /\ cache' = << [r EXCEPT !.log = {}] >>
           /\ df' = r.df
           /\ dim_data' = r.dim_data
           /\ rendered' = rendered \cup r.elements
           /\ logged' = logged \cup r.log
    /\ pc' = "guard"
    /\ UNCHANGED <<csv, xlsx, bound, selection, filtered_df, map_selection, map_df,
                   kpis, monthly, weekday_counts, impact_count, summary, rates>>

\* lines 43-46: st.stop() on an empty table, else the title.
EmptyGuard ==
    /\ pc = "guard"
    /\ IF IsEmpty(df)
       THEN pc' = "stopped" /\ rendered' = rendered
       ELSE pc' = "filters" /\ rendered' = rendered \cup {"title"}
    /\ UNCHANGED <<csv, xlsx, cache, df, dim_data, bound, selection, filtered_df,
                   map_selection, map_df, kpis, monthly, weekday_counts, impact_count,
                   summary, rates, logged>>

\* lines 49-84: the global filter block.
Filters ==
    /\ pc = "filters"
    /\ IF FilterRaises(df)
       THEN /\ bound' = {GlobalAttrs[i].bind : i \in 1..DomainsBound(df, 1)}
            /\ UNCHANGED <<df, selection, filtered_df>>
            /\ logged' = logged \cup {"ERROR Error in filter processing"}
            /\ rendered' = rendered \cup {"error: An error occurred while filtering data."}
       ELSE \E sel \in Selections(df, GlobalAttrs, MaxPicks) :
              LET h == GlobalFilterHeap(df, sel)
              IN  /\ df' = h[1]
                  /\ filtered_df' = h[Current(h)]
                  /\ selection' = sel
                  /\ bound' = {GlobalAttrs[i].bind : i \in 1..Len(GlobalAttrs)} \cup {"filtered_df"}
                  /\ UNCHANGED <<logged, rendered>>
    /\ pc' = "kpis"
    /\ UNCHANGED <<csv, xlsx, cache, dim_data, map_selection, map_df, kpis, monthly,
                   weekday_counts, impact_count, summary, rates>>

\* lines 87-99: the KPI block.
KPIs ==
    /\ pc = "kpis"
    /\ kpis' = KpiBlock(bound, filtered_df)
    /\ rendered' = rendered
           \cup {"metric: " \o kpis'.metrics[i][1] : i \in 1..Len(kpis'.metrics)}
           \cup (IF kpis'.alert = "none" THEN {} ELSE {kpis'.alert})
    /\ logged' = logged \cup (IF kpis'.raised THEN {"WARNING KPI rendering issue"} ELSE {})
    /\ pc' = "viz"
    /\ UNCHANGED <<csv, xlsx, cache, df, dim_data, bound, selection, filtered_df,
                   map_selection, map_df, monthly, weekday_counts, impact_count,
                   summary, rates>>

\* lines 102-151: the four visualizations in their one try.
Visualizations ==
    /\ pc = "viz"
    /\ LET n == VizReached(bound, df, filtered_df)
       IN  /\ monthly' = IF n >= 1 THEN Monthly(filtered_df) ELSE monthly
           /\ weekday_counts' = IF n >= 2 THEN WeekdayCounts(filtered_df) ELSE weekday_counts
           /\ IF n >= 2
              THEN \E sel \in Selections(df, MapAttrs, MaxPicks - PickCount(selection, 1)) :
                     LET h == IF n >= 3 THEN MapHeap(df, sel) ELSE MapFilterHeap(df, sel)
                     IN  /\ map_selection' = sel
                         /\ df' = h[1]
                         /\ map_df' = h[Current(h)]
                         /\ bound' = bound \cup {"map_df"}
                         /\ rendered' = rendered
                               \cup {"chart: Monthly Collision Trend", "chart: Collisions by Day of Week"}
                               \cup (IF n < 3 THEN {}
                                     ELSE IF ~IsEmpty(h[Current(h)]) THEN {"map"}
                                     ELSE {"warning: No location data available after filtering."})
                               \cup (IF n = 4 THEN {"chart: Accident Classification"} ELSE {})
                               \cup (IF n < 4 THEN {"error: Failed to render some visualizations."} ELSE {})
              ELSE /\ UNCHANGED <<map_selection, df, map_df, bound>>
                   /\ rendered' = rendered
                         \cup (IF n >= 1 THEN {"chart: Monthly Collision Trend"} ELSE {})
                         \cup {"error: Failed to render some visualizations."}
           /\ impact_count' = IF n = 4 THEN value_counts(filtered_df, "classification_of_accident")
                              ELSE impact_count
           /\ logged' = logged \cup (IF n < 4 THEN {"ERROR Visualization error"} ELSE {})
    /\ pc' = "insight"
    /\ UNCHANGED <<csv, xlsx, cache, dim_data, selection, filtered_df, kpis, summary, rates>>

\* lines 154-167: the insight summary.
InsightSummary ==
    /\ pc = "insight"
    /\ summary' = InsightBlock(bound, filtered_df)
    /\ rendered' = rendered \cup
           {<<"metric: Most Frequent Day", "metric: Most Common Light Condition",
              "metric: Top Road Surface">>[i] : i \in 1..Len(summary')}
    /\ logged' = logged \cup (IF Len(summary') < Len(SummaryColumns)
                              THEN {"WARNING Insight summary error"} ELSE {})
    /\ pc' = "comparative"
    /\ UNCHANGED <<csv, xlsx, cache, df, dim_data, bound, selection, filtered_df,
                   map_selection, map_df, kpis, monthly, weekday_counts, impact_count, rates>>

\* lines 170-184: the comparative metrics.
Comparative ==
    /\ pc = "comparative"
    /\ IF ComparativeRaises(bound, df)
       THEN /\ logged' = logged \cup {"WARNING Comparative metric issue"}
            /\ UNCHANGED <<rates, rendered>>
       ELSE /\ rates' = ComparativeBlock(df, filtered_df)
            /\ rendered' = rendered \cup {"text: Injury Rate", rates'.message}
            /\ UNCHANGED logged
    /\ pc' = "tables"
    /\ UNCHANGED <<csv, xlsx, cache, df, dim_data, bound, selection, filtered_df,
                   map_selection, map_df, kpis, monthly, weekday_counts, impact_count, summary>>

\* lines 187-199: the filtered table, its download and the dimension tables.
FinalTables ==
    /\ pc = "tables"
    /\ IF "filtered_df" \notin bound
       THEN /\ logged' = logged \cup {"ERROR Error rendering final tables"}
            /\ rendered' = rendered \cup {"error: Unable to show final tables or downloads."}
       ELSE /\ rendered' = rendered
                  \cup {"table: Filtered Collision Data", "download: filtered_collisions.csv"}
                  \cup {"table: " \o name : name \in DOMAIN dim_data}
            /\ UNCHANGED logged
    /\ pc' = "done"
    /\ UNCHANGED <<csv, xlsx, cache, df, dim_data, bound, selection, filtered_df,
                   map_selection, map_df, kpis, monthly, weekday_counts, impact_count,
                   summary, rates>>

\* A widget interaction (or the user's rerun) runs the script again from the top
\* in a fresh namespace; the cache and the log file stay.
Rerun ==
    /\ pc \in {"done", "stopped"}
    /\ pc' = "load"
    /\ df' = EmptyFrame
    /\ dim_data' = NoSheets
    /\ bound' = {}
    /\ selection' = NoSelection
    /\ filtered_df' = EmptyFrame
    /\ map_selection' = NoSelection
    /\ map_df' = EmptyFrame
    /\ kpis' = NoKpis
    /\ monthly' = <<>>
    /\ weekday_counts' = <<>>
    /\ impact_count' = <<>>
    /\ summary' = <<>>
    /\ rates' = NoRates
    /\ rendered' = {}
    /\ UNCHANGED <<csv, xlsx, cache, logged>>

Next ==
    \/ LoadData
    \/ EmptyGuard
    \/ Filters
    \/ KPIs
    \/ Visualizations
    \/ InsightSummary
    \/ Comparative
    \/ FinalTables
    \/ Rerun

Spec == Init /\ [][Next]_vars

(***************************************************************************)
(* The claims.                                                             *)
(***************************************************************************)
\* The table load_data returned in this session.
Loaded == cache[1].df

FilterDone == "filtered_df" \in bound

\* A row passes a selection over the given attributes when, for every attribute
\* with a non-empty selected set, its value is present and in the set.
Passes(row, sel, attrs) ==
    \A i \in 1..Len(attrs) :
        LET a == attrs[i]
            v == IF a.name = "year"
                 THEN (IF row["accident_date"] = NaN THEN NaN
                       ELSE << row["accident_date"][1].year >>)
                 ELSE row[a.col]
        IN  sel[a.name] = {} \/ (v # NaN /\ v[1] \in sel[a.name])

\* f holds exactly the rows of d at the positions in K, in d's order.
IsSubframe(f, d, K) ==
    /\ Len(f.idx) = Len(f.rows)
    /\ Range(f.idx) = {d.idx[k] : k \in K}
    /\ \A i, j \in 1..Len(f.idx) : i < j => f.idx[i] < f.idx[j]
    /\ \A j \in 1..Len(f.rows) : f.rows[j] = d.rows[f.idx[j] + 1]

\* C1: when the global filter block has run, filtered_df has the columns of the
\* loaded table and exactly its rows, in their original order, that pass the
\* global selection (every attribute with a non-empty selected set has the
\* row's value in the set; an empty set does not restrict).
C1_FilteredExact ==
    pc = "kpis" /\ FilterDone =>
        /\ filtered_df.cols = Loaded.cols
        /\ IsSubframe(filtered_df, Loaded,
                      {k \in 1..Len(Loaded.rows) : Passes(Loaded.rows[k], selection, GlobalAttrs)})

\* Two attributes are restricted, and the filter keeps some rows and drops others.
C1_Witness ==
    /\ pc = "kpis"
    /\ FilterDone
    /\ Cardinality({a \in AttrNames : selection[a] # {}}) = 2
    /\ Len(filtered_df.rows) > 0
    /\ Len(filtered_df.rows) < Len(df.rows)

\* The selection with value v added to attribute a.
Plus(sel, a, v) == [sel EXCEPT ![a] = @ \cup {v}]

Last(h) == h[Len(h)]

\* Adding v to attribute a of the global (map) selection loses no row of the
\* global (map) filter's result.
GlobalGrows(a, v) ==
    Range(filtered_df.idx) \subseteq Range(Last(GlobalFilterHeap(df, Plus(selection, a.name, v))).idx)

MapGrows(a, v) ==
    Range(map_df.idx) \subseteq Range(Last(MapHeap(df, Plus(map_selection, a.name, v))).idx)

\* C2 as stated: adding any one value to any attribute's selected set, an empty
\* set included, gives a superset of the rows, for the global filter and for
\* the map filter.
C2_MonotoneAsStated ==
    /\ pc = "kpis" /\ FilterDone =>
          \A i \in 1..Len(GlobalAttrs) : \A v \in Domain(df, GlobalAttrs[i]) :
              GlobalGrows(GlobalAttrs[i], v)
    /\ pc = "insight" /\ "map" \in rendered =>
          \A i \in 1..Len(MapAttrs) : \A v \in Domain(df, MapAttrs[i]) :
              MapGrows(MapAttrs[i], v)

\* C2 amended: adding one value to an attribute's selected set that is not
\* empty gives a superset of the rows, for the global filter and for the map
\* filter.
C2_MonotoneNonEmpty ==
    /\ pc = "kpis" /\ FilterDone =>
          \A i \in 1..Len(GlobalAttrs) : \A v \in Domain(df, GlobalAttrs[i]) :
              selection[GlobalAttrs[i].name] # {} => GlobalGrows(GlobalAttrs[i], v)
    /\ pc = "insight" /\ "map" \in rendered =>
          \A i \in 1..Len(MapAttrs) : \A v \in Domain(df, MapAttrs[i]) :
              map_selection[MapAttrs[i].name] # {} => MapGrows(MapAttrs[i], v)

\* One year is selected and the other year, when added, brings a row back.
C2_Witness ==
    /\ pc = "kpis"
    /\ FilterDone
    /\ selection["year"] = {2017}
    /\ 2018 \in Domain(df, GlobalAttrs[1])
    /\ Len(Last(GlobalFilterHeap(df, Plus(selection, "year", 2018))).rows) > Len(filtered_df.rows)

\* Some step of load_data's try fails on the input files.
StepFails ==
    \/ csv = NaN
    \/ xlsx = NaN
    \/ "accident_date" \notin csv[1].cols
    \/ \E i \in 1..Len(Dims) :
          \/ Dims[i].sheet \notin DOMAIN xlsx[1]
          \/ Dims[i].key \notin csv[1].cols
          \/ Dims[i].key \notin xlsx[1][Dims[i].sheet].cols

\* C3: when a step of load_data fails it returns the empty table and the empty
\* mapping and logs an error, and when the loaded table is empty (for that or
\* any other reason) the script stops at the guard with nothing drawn but
\* load_data's own error.
C3_FailedLoadStops ==
    pc # "load" =>
        /\ StepFails =>
              /\ df = EmptyFrame
              /\ dim_data = NoSheets
              /\ "ERROR Error loading data" \in logged
        /\ IsEmpty(df) =>
              /\ pc \in {"guard", "stopped"}
              /\ rendered \subseteq {"error: Failed to load data."}

\* The last merge failed after seven had succeeded on a table with rows.
C3_Witness ==
    /\ pc = "stopped"
    /\ csv # NaN /\ xlsx # NaN
    /\ Len(csv[1].rows) > 0
    /\ FactColumns \subseteq csv[1].cols
    /\ DOMAIN xlsx[1] = SheetNames \ {"Dimmax_injury"}
    /\ "ERROR Error loading data" \in logged

\* What each block draws when it gets to its end, and whether its own
\* computation can be carried out on the tables of this run.
TrendComputable == FilterDone /\ "accident_date" \in filtered_df.cols
WeekdayComputable == FilterDone /\ "weekday" \in filtered_df.cols
MapComputable == {"years", "locations", "lights", "environments", "surfaces"} \subseteq bound
                 /\ {"lat", "long"} \subseteq df.cols
PieComputable == FilterDone /\ "classification_of_accident" \in filtered_df.cols
KpisComputable == FilterDone /\ Range(KpiColumns) \subseteq filtered_df.cols
SummaryComputable == FilterDone /\ \A i \in 1..Len(SummaryColumns) :
                                      ~TopRaises(filtered_df, SummaryColumns[i])
ComparativeComputable == ~ComparativeRaises(bound, df)
TablesComputable == FilterDone

\* C4: at the end of a run, every visualization or summary block whose own
\* computation succeeds has been drawn, whatever other block raised.
C4_BlocksIsolated ==
    pc = "done" =>
        /\ TrendComputable => "chart: Monthly Collision Trend" \in rendered
        /\ WeekdayComputable => "chart: Collisions by Day of Week" \in rendered
        /\ MapComputable =>
              rendered \cap {"map", "warning: No location data available after filtering."} # {}
        /\ PieComputable => "chart: Accident Classification" \in rendered
        /\ KpisComputable => "metric: Vehicles Involved" \in rendered
        /\ SummaryComputable => "metric: Top Road Surface" \in rendered
        /\ ComparativeComputable => "text: Injury Rate" \in rendered
        /\ TablesComputable => "table: Filtered Collision Data" \in rendered

\* The values of a column of filtered_df that are present, and the ones among
\* them no other value is more frequent than.
PresentValues(col) ==
    {filtered_df.rows[k][col][1] :
        k \in {j \in 1..Len(filtered_df.rows) : filtered_df.rows[j][col] # NaN}}

Frequency(col, v) ==
    Cardinality({k \in 1..Len(filtered_df.rows) : filtered_df.rows[k][col] = <<v>>})

MostFrequent(col) ==
    {v \in PresentValues(col) : \A w \in PresentValues(col) : Frequency(col, w) <= Frequency(col, v)}

\* C5: after the insight block, all three metrics are drawn, each a most
\* frequent present value of its column of filtered_df, or "N/A" when the
\* column has no present value (filtered_df empty or not).
C5_SummaryAlwaysThree ==
    pc \in {"comparative", "tables", "done"} /\ FilterDone =>
        /\ Len(summary) = Len(SummaryColumns)
        /\ \A i \in 1..Len(SummaryColumns) :
              IF PresentValues(SummaryColumns[i]) = {}
              THEN summary[i] = "N/A"
              ELSE summary[i] \in MostFrequent(SummaryColumns[i])

\* C6: the weekday chart's frame has the seven weekdays in order, each with the
\* number of rows of filtered_df on that weekday, 0 when there is none.
C6_WeekdayCountsZeroFilled ==
    "chart: Collisions by Day of Week" \in rendered =>
        /\ Len(weekday_counts) = Len(Weekdays)
        /\ \A k \in 1..Len(Weekdays) :
              weekday_counts[k] =
                  << Weekdays[k],
                     << Cardinality({j \in 1..Len(filtered_df.rows) :
                                        filtered_df.rows[j]["weekday"] = << Weekdays[k] >>}) >> >>

InjurySum(f) ==
    SeqSum([k \in 1..Len(f.rows) |->
               IF f.rows[k]["num_of_injuries"] = NaN THEN 0 ELSE f.rows[k]["num_of_injuries"][1]])

\* C7: when the comparative block has run, no division was by zero, df has
\* rows, the overall rate is sum/rows of df, the filtered rate is 0 for an
\* empty filtered_df and sum/rows otherwise, and the difference is the filtered
\* rate minus the overall rate.
C7_RatesDefined ==
    "text: Injury Rate" \in rendered =>
        LET o == rates.all_avg_injury_rate
            f == rates.filtered_avg_injury_rate
            g == rates.injury_diff
        IN  /\ o.den # 0 /\ f.den # 0 /\ g.den # 0
            /\ Len(df.rows) > 0
            /\ o.num * Len(df.rows) = InjurySum(df) * o.den
            /\ IF Len(filtered_df.rows) = 0 THEN f.num = 0
               ELSE f.num * Len(filtered_df.rows) = InjurySum(filtered_df) * f.den
            /\ g.num * (f.den * o.den) = (f.num * o.den - o.num * f.den) * g.den

\* The comparative block ran on an empty filtered table.
C7_Witness ==
    /\ "text: Injury Rate" \in rendered
    /\ Len(filtered_df.rows) = 0
    /\ InjurySum(df) > 0
    /\ rates.message = "warning: lower than average"

\* C8: at the end of a run, the map's table is determined by the loaded table
\* and the map selection alone (the rows passing the map selection that have
\* both coordinates), and filtered_df by the loaded table and the global
\* selection alone, whatever the other selection was.
C8_FiltersIndependent ==
    /\ pc = "done"
       /\ rendered \cap {"map", "warning: No location data available after filtering."} # {} =>
          IsSubframe([map_df EXCEPT !.rows = [j \in 1..Len(map_df.rows) |->
                                        [c \in Loaded.cols |-> IF c = "long" THEN map_df.rows[j]["longitude"]
                                                               ELSE map_df.rows[j][c]]]],
                     Loaded,
                     {k \in 1..Len(Loaded.rows) :
                         /\ Passes(Loaded.rows[k], map_selection, MapAttrs)
                         /\ Loaded.rows[k]["lat"] # NaN
                         /\ Loaded.rows[k]["long"] # NaN})
    /\ pc = "done" /\ FilterDone =>
          IsSubframe(filtered_df, Loaded,
                     {k \in 1..Len(Loaded.rows) : Passes(Loaded.rows[k], selection, GlobalAttrs)})

\* Both selections restrict, and the map shows a row the global filter dropped.
C8_Witness ==
    /\ pc = "done"
    /\ "map" \in rendered
    /\ selection # NoSelection
    /\ map_selection # NoSelection
    /\ ~(Range(map_df.idx) \subseteq Range(filtered_df.idx))

UniqueIds ==
    \A i \in 1..Len(Dims) :
        LET sh == xlsx[1][Dims[i].sheet]
        IN  \A j, k \in 1..Len(sh.rows) : sh.rows[j][Dims[i].key] = sh.rows[k][Dims[i].key] => j = k

\* The label the sheet of dimension d gives to key cell v: missing when v is
\* missing or on no row of the sheet.
LabelFor(d, v) ==
    LET sh == xlsx[1][d.sheet]
        js == {j \in 1..Len(sh.rows) : sh.rows[j][d.key] = v}
    IN  IF v = NaN \/ js = {} THEN NaN ELSE sh.rows[CHOOSE j \in js : TRUE][d.label]

\* C9: when load_data has returned from a load in which no step failed, with
\* unique identifiers in every sheet, df has one row per fact row in the same
\* order, holding the fact row's cells and, per dimension, the sheet's label for
\* the row's key, or a missing label when the key is missing or unmatched.
C9_JoinCorrect ==
    pc = "guard" /\ ~StepFails /\ UniqueIds =>
        /\ Len(df.rows) = Len(csv[1].rows)
        /\ \A k \in 1..Len(df.rows) :
              /\ \A c \in csv[1].cols : df.rows[k][c] = csv[1].rows[k][c]
              /\ \A i \in 1..Len(Dims) :
                    df.rows[k][Dims[i].label] = LabelFor(Dims[i], csv[1].rows[k][Dims[i].key])

\* A loaded table with a matched key, a missing key and an unmatched key.
C9_Witness ==
    /\ pc = "guard"
    /\ ~StepFails /\ UniqueIds
    /\ \E k \in 1..Len(df.rows) :
          /\ df.rows[k]["location_type_id"] = NaN
          /\ df.rows[k]["lightid"] = <<9>>
          /\ df.rows[k]["light"] = NaN
          /\ df.rows[k]["max_injury"] = <<"None">>

\* C10: from the load on and through every block of every run, df is the table
\* load_data returned.
C10_DfUnchanged == pc # "load" => df = Loaded

\* A run has ended in which both filters dropped rows and the map table was
\* renamed.
C10_Witness ==
    /\ pc = "done"
    /\ "map" \in rendered
    /\ "longitude" \in map_df.cols
    /\ Len(map_df.rows) < Len(df.rows)
    /\ Len(filtered_df.rows) < Len(df.rows)
    /\ "long" \in df.cols

====
